---- MODULE Spec2Model ----
(***************************************************************************)
(* Plate-lookup bot (src/__main__.py): the three TTL caches, the primary   *)
(* and backup adapters, and the lookup orchestration consultar_placa as    *)
(* called from the direct-message and the inline-query handlers.           *)
(*                                                                         *)
(* Time is the TTLCache timer (time.monotonic, seconds), whose origin is   *)
(* arbitrary: the model measures it from the present, so the timer reads   *)
(* now = 0 and the passing of time (Tick) lowers every stored expiry time. *)
(* A synchronous stretch of code (no await in it) is one step and reads    *)
(* the clock once.  Handlers run as concurrent tasks that interleave at    *)
(* their awaits (concurrent_updates(True)).                                *)
(***************************************************************************)
EXTENDS Integers, Sequences, FiniteSets, TLC

\* ------------------------------------------------------------------ bounds
\* Capacities of the three stores, scaled down so that capacity eviction is
\* reachable (the source sets 500, 100 and 200).
maxsize_principal == 1
maxsize_erros == 1
maxsize_inline == 1
\* Time passes in steps of TickStep seconds.
TickStep == 300
\* The handlers take at most MaxUpdates updates in one run of Spec, and at
\* most MaxCalls in one run of SpecUpstream.
MaxUpdates == 3
MaxCalls == 1
\* and at most MaxPasses in one run of SpecOneCall.
MaxPasses == 2
\* SpecValidator takes every text of up to MaxLen characters (besides the
\* seven-character plates) and applies at most MaxApply functions to it.
MaxLen == 4
MaxApply == 2
\* The handlers take at most MaxQueries updates in one run of SpecStaleness.
MaxQueries == 3

\* ------------------------------------------------------- program constants
ttl_principal == 1800
ttl_erros == 300
ttl_inline == 600

Tasks == {1, 2}
Placas == {"ABC1234", "ABC1D23"}
BackupIndexes == {1, 2}

\* The reading of the cache timer, taken as the origin of time.
now == 0

VARIABLES
    cache_principal,  \* results tier: sequence of entries, least recently used first
    cache_erros,      \* failures tier
    cache_inline,     \* inline tier
    API_BACKUP_URLS,  \* [1..2 -> BOOLEAN]: TRUE where the environment sets the URL
    pc,               \* per task: "idle", "primary", "backup"
    handler,          \* per task: "message" or "inline"
    placa,            \* per task: the identifier being looked up
    resultado,        \* per task: the primary adapter's result (local of consultar_placa)
    bi,               \* per task: index of the backup being awaited
    calls,            \* per task: adapters invoked by its call so far, in order
    raced,            \* per task: a call for the same identifier ended during this one
    updates,          \* the number of updates taken so far
    window,           \* per tier and identifier: time left of the TTL since its last write
    last,             \* the handler run that ended in the latest step, if one did
    entry,            \* the update taken last: its text and what the handler made of it
    obtained          \* per store and identifier: seconds since an adapter returned the value held

vars == <<cache_principal, cache_erros, cache_inline, API_BACKUP_URLS, pc,
          handler, placa, resultado, bi, calls, raced, updates, window, last,
          entry, obtained>>

\* --------------------------------------------------------------- validator
\* A string is a sequence of characters, a character a one-character string.
\* AZ and Digits09 are the characters the classes [A-Z] and [0-9] hold among
\* those the model types; the others stand for a lowercase letter of each,
\* a letter whose uppercase is two letters, white space and punctuation.
AZ == {"A", "B", "C", "D", "S", "Z"}
Digits09 == {"0", "1", "2", "3", "4", "7", "9"}
Whitespace == {" "}

\* str.upper(), character by character.
UpperChar(ch) ==
    IF ch = "a" THEN <<"A">>
    ELSE IF ch = "b" THEN <<"B">>
    ELSE IF ch = "c" THEN <<"C">>
    ELSE IF ch = "d" THEN <<"D">>
    ELSE IF ch = "ß" THEN <<"S", "S">>
    ELSE <<ch>>
RECURSIVE Upper(_)
Upper(s) == IF s = <<>> THEN <<>> ELSE UpperChar(Head(s)) \o Upper(Tail(s))

\* str.strip(): white space dropped at both ends.
RECURSIVE LStrip(_)
LStrip(s) == IF s # <<>> /\ Head(s) \in Whitespace THEN LStrip(Tail(s)) ELSE s
RECURSIVE RStrip(_)
RStrip(s) ==
    IF s # <<>> /\ s[Len(s)] \in Whitespace THEN RStrip(SubSeq(s, 1, Len(s) - 1)) ELSE s
Strip(s) == RStrip(LStrip(s))

\* A variant of Sub that replaces the first occurrence only (count=1).
RECURSIVE SubFirst(_)
SubFirst(s) ==
    IF s = <<>> THEN <<>>
    ELSE IF Head(s) \notin AZ \cup Digits09 THEN Tail(s)
    ELSE <<Head(s)>> \o SubFirst(Tail(s))
\* re.sub(r'[^A-Z0-9]', '', s) (line 74).
Sub(s) == SelectSeq(s, LAMBDA ch : ch \in AZ \cup Digits09)

\* PlateValidator.normalize_plate (lines 71-74).
normalize_plate(plate) == Sub(Strip(Upper(plate)))

\* A variant of PLATE_PATTERNS whose 'antiga' takes a letter or a digit in
\* its fifth place.
PLATE_PATTERNS_Loose ==
    << [name |-> "mercosul", pattern |-> <<AZ, AZ, AZ, Digits09, AZ, Digits09, Digits09>>],
       [name |-> "antiga",
        pattern |-> <<AZ, AZ, AZ, Digits09, AZ \cup Digits09, Digits09, Digits09>>],
       [name |-> "moto_mercosul", pattern |-> <<AZ, AZ, AZ, Digits09, Digits09, AZ, Digits09>>] >>
\* PLATE_PATTERNS (lines 43-47), in the dict's order; a pattern is the
\* sequence of its character classes between ^ and $.
PLATE_PATTERNS ==
    << [name |-> "mercosul", pattern |-> <<AZ, AZ, AZ, Digits09, AZ, Digits09, Digits09>>],
       [name |-> "antiga", pattern |-> <<AZ, AZ, AZ, Digits09, Digits09, Digits09, Digits09>>],
       [name |-> "moto_mercosul", pattern |-> <<AZ, AZ, AZ, Digits09, Digits09, AZ, Digits09>>] >>

\* re.match(pattern, plate) for such a pattern: the whole string, class by
\* class.
Match(pattern, plate) ==
    /\ Len(plate) = Len(pattern)
    /\ \A i \in 1..Len(pattern) : plate[i] \in pattern[i]

\* PlateValidator.validate_plate (lines 60-69): the first pattern that
\* matches, in the dict's order.
validate_plate(plate) ==
    LET p == Strip(Upper(plate))
        hits == {i \in 1..Len(PLATE_PATTERNS) : Match(PLATE_PATTERNS[i].pattern, p)}
    IN  IF hits = {} THEN <<FALSE, "invalid">>
        ELSE <<TRUE, PLATE_PATTERNS[CHOOSE i \in hits : \A j \in hits : i <= j].name>>

\* The Python str a sequence of characters stands for (f"placa_{placa}").
RECURSIVE Str(_)
Str(s) == IF s = <<>> THEN "" ELSE Head(s) \o Str(Tail(s))

\* ------------------------------------------------------------------ values
\* A value is what an adapter hands back: a parsed JSON body or the dict an
\* adapter builds for a failure.  shape is the Python type of the value,
\* erro the value under its "erro" key ("none" when it has no such key; for a
\* list, "elem" when the list contains the string "erro"), src the adapter.
NoValue == [shape |-> "none", erro |-> "none", src |-> "none", code |-> 0]
Fail(kind, code) == [shape |-> "dict", erro |-> kind, src |-> "primary", code |-> code]
Raised(exc) == [shape |-> "raise", erro |-> exc, src |-> "none", code |-> 0]
Json(body, src) == [shape |-> body.shape, erro |-> body.erro, src |-> src, code |-> 0]

\* The value consultar_apis_backup returns when no backup answered (line 151).
all_apis_failed == [shape |-> "dict", erro |-> "all_apis_failed", src |-> "backups", code |-> 0]

\* "erro" in v (lines 167, 171, 182, 436): key test on a dict, element test on
\* a list; on None or a number Python raises TypeError (see RaisesIn).
HasErro(v) == v.erro # "none"
RaisesIn(v) == v.shape = "scalar"
\* v["erro"] (line 167) raises TypeError on a list.
RaisesIndex(v) == v.shape = "list"

\* ------------------------------------------------------------- cache keys
cache_key(p) == "placa_" \o p
error_key(p) == "error_" \o p
inline_cache_key(p) == "inline_" \o p

\* ---------------------------------------------------------------- TTLCache
\* A store is the sequence of its entries [key, value, expires, age] in the
\* order of TTLCache's links: least recently used first.  expires is the
\* link's expiry time; age, the time since the entry was written, is kept
\* beside it to state what expiry promises.

\* TTLCache.expire(time): drop every entry with not (time < expires).
Expire(c, t) == SelectSeq(c, LAMBDA e : t < e.expires)

HasKey(c, k) == \E i \in 1..Len(c) : c[i].key = k
Entry(c, k) == c[CHOOSE i \in 1..Len(c) : c[i].key = k]
Without(c, k) == SelectSeq(c, LAMBDA e : e.key # k)

\* Variants of Contains: present at the very expiry time (as cachetools 4
\* had it), and absent ttl_erros seconds early.
ContainsInclusive(c, k, t) == HasKey(c, k) /\ t <= Entry(c, k).expires
ContainsLongLived(c, k, t) == HasKey(c, k) /\ t + ttl_erros < Entry(c, k).expires
\* key in cache: the link exists and timer() < link.expires; no reordering.
Contains(c, k, t) == HasKey(c, k) /\ t < Entry(c, k).expires

\* cache[key] on a key that Contains holds of: the value.
GetValue(c, k) == Entry(c, k).value

\* A variant of Touch that starts the entry's lifetime again (a sliding
\* expiry).
TouchRefreshes(c, k) ==
    Without(c, k) \o <<[Entry(c, k) EXCEPT !.expires = now + ttl_principal]>>
\* cache[key] moves the link to the most-recently-used end and leaves its
\* expiry time alone.
Touch(c, k) == Without(c, k) \o <<Entry(c, k)>>

\* Cache.__setitem__'s loop: while currsize + 1 > maxsize: popitem(), which
\* drops the least recently used entry.
RECURSIVE PopUntilFits(_, _)
PopUntilFits(c, maxsize) ==
    IF Len(c) + 1 > maxsize /\ Len(c) > 0 THEN PopUntilFits(Tail(c), maxsize) ELSE c

\* Variants of SetItem: one that keeps the entry a key already has, one that
\* never makes room.
SetItemKeepsFirst(c, k, v, t, ttl, maxsize) ==
    LET live == Expire(c, t)
    IN  IF HasKey(live, k) THEN live
        ELSE PopUntilFits(live, maxsize)
             \o <<[key |-> k, value |-> v, expires |-> t + ttl, age |-> 0]>>
SetItemNoEvict(c, k, v, t, ttl, maxsize) ==
    Without(Expire(c, t), k) \o <<[key |-> k, value |-> v, expires |-> t + ttl, age |-> 0]>>
\* cache[key] = value at time t: expire, make room unless the key is already
\* there, store, and put the link last with expires = t + ttl.
SetItem(c, k, v, t, ttl, maxsize) ==
    LET live == Expire(c, t)
        room == IF HasKey(live, k) THEN live ELSE PopUntilFits(live, maxsize)
    IN  Without(room, k) \o <<[key |-> k, value |-> v, expires |-> t + ttl, age |-> 0]>>

\* ---------------------------------------------------------------- adapters
\* What one HTTP exchange can do: raise (exc = "timeout" for
\* httpx.TimeoutException, "other" for any other exception) or answer with a
\* status and a body.  A body is the JSON it parses to; shape "invalid" is a
\* body response.json() raises on.
Bodies ==
    { [shape |-> "dict", erro |-> "none"],        \* an object without "erro"
      [shape |-> "dict", erro |-> "timeout"],     \* an object with "erro": "timeout"
      [shape |-> "dict", erro |-> "not_found"],   \* an object with "erro": "not_found"
      [shape |-> "list", erro |-> "none"],        \* an array without the string "erro"
      [shape |-> "scalar", erro |-> "none"],      \* null or a number
      [shape |-> "invalid", erro |-> "none"] }    \* not JSON
NoBody == [shape |-> "none", erro |-> "none"]
Threw(exc) == [exc |-> exc, status |-> 0, body |-> NoBody]
Answered(status, body) == [exc |-> "none", status |-> status, body |-> body]

PrimaryOutcomes ==
    {Threw("timeout"), Threw("other")}
    \cup {Answered(st, NoBody) : st \in {402, 404, 429, 500}}
    \cup {Answered(200, b) : b \in Bodies}

BackupOutcomes ==
    {Threw("other")}
    \cup {Answered(st, NoBody) : st \in {201, 500}}
    \cup {Answered(200, b) : b \in Bodies}

\* The outcomes met in everyday running: the upstream answers with a record,
\* does not know the identifier, throttles, or times out.
CommonPrimary ==
    {Threw("timeout"), Answered(404, NoBody), Answered(429, NoBody),
     Answered(200, [shape |-> "dict", erro |-> "none"])}
CommonBackup ==
    {Threw("other"), Answered(200, [shape |-> "dict", erro |-> "none"])}

\* response.raise_for_status() passes exactly the 2xx statuses.
IsSuccess(status) == 200 <= status /\ status < 300

\* A variant of consultar_api_principal without the branch for status 429.
consultar_api_principal_no429(o) ==
    IF o.exc = "timeout" THEN Fail("timeout", 0)
    ELSE IF o.exc # "none" THEN Fail("api_error", 0)
    ELSE IF o.status = 402 THEN Fail("payment_required", 0)
    ELSE IF o.status = 404 THEN Fail("not_found", 0)
    ELSE IF ~IsSuccess(o.status) THEN Fail("http_error", o.status)
    ELSE IF o.body.shape = "invalid" THEN Fail("api_error", 0)
    ELSE Json(o.body, "primary")
\* consultar_api_principal (lines 98-131): the value it returns for an outcome.
consultar_api_principal(o) ==
    IF o.exc = "timeout" THEN Fail("timeout", 0)
    ELSE IF o.exc # "none" THEN Fail("api_error", 0)
    ELSE IF o.status = 402 THEN Fail("payment_required", 0)
    ELSE IF o.status = 404 THEN Fail("not_found", 0)
    ELSE IF o.status = 429 THEN Fail("rate_limit", 0)
    ELSE IF ~IsSuccess(o.status) THEN Fail("http_error", o.status)
    ELSE IF o.body.shape = "invalid" THEN Fail("api_error", 0)
    ELSE Json(o.body, "primary")

BackupName(i) == IF i = 1 THEN "backup1" ELSE "backup2"

\* One iteration of the loop of consultar_apis_backup (lines 139-149): TRUE
\* when the iteration returns response.json(), FALSE when the loop goes on.
BackupAnswers(o) == o.exc = "none" /\ o.status = 200 /\ o.body.shape # "invalid"

\* A variant of NextBackup that does not move past the backup just tried.
NextBackupAgain(urls, i) ==
    IF \E j \in BackupIndexes : j >= i /\ j > 0 /\ urls[j]
    THEN CHOOSE j \in BackupIndexes :
            j >= i /\ urls[j] /\ \A m \in BackupIndexes : (m >= i /\ urls[m]) => j <= m
    ELSE 0
\* The first configured backup after index i, or 0 (lines 135-137).
NextBackup(urls, i) ==
    IF \E j \in BackupIndexes : j > i /\ urls[j]
    THEN CHOOSE j \in BackupIndexes :
            j > i /\ urls[j] /\ \A m \in BackupIndexes : (m > i /\ urls[m]) => j <= m
    ELSE 0

\* A variant of FallbackKinds that sends every failure kind to the backups.
FallbackKindsWithNotFound ==
    {"payment_required", "api_error", "timeout", "http_error", "not_found", "rate_limit"}
FallbackKinds == {"payment_required", "api_error", "timeout", "http_error"}

\* Line 167: does consultar_placa go to the backups?  "raise" when the test
\* itself raises TypeError.
WantsFallback(r) ==
    IF RaisesIn(r) THEN "raise"
    ELSE IF ~HasErro(r) THEN "no"
    ELSE IF RaisesIndex(r) THEN "raise"
    ELSE IF r.erro \in FallbackKinds THEN "yes" ELSE "no"

\* What consultar_placa does once it has its final values: a decision
\* [tier, value] names the tier written ("none" when it raises) and the
\* value returned (or the exception raised).
Decision(tier, v) == [tier |-> tier, value |-> v]

\* Lines 182-187, the path without fallback.
DecidePrimary(r) ==
    IF HasErro(r) THEN Decision("erros", r) ELSE Decision("principal", r)

\* A variant of DecideBackup that caches the primary failure whatever the
\* backups returned.
DecideBackupKeepsPrimary(r, rb) ==
    IF RaisesIn(rb) THEN Decision("none", Raised("TypeError"))
    ELSE Decision("erros", r)
\* Lines 171-179, after consultar_apis_backup returned rb.
DecideBackup(r, rb) ==
    IF RaisesIn(rb) THEN Decision("none", Raised("TypeError"))
    ELSE IF ~HasErro(rb) THEN Decision("principal", rb)
    ELSE Decision("erros", r)

\* ------------------------------------------------------------------- state
NoOutcome == Threw("none")

\* The record of a handler run that has just ended: what it found in the
\* stores when it started its synchronous stretch (inline, principal, erros),
\* the adapter outcome that ended it (resp for the primary, bresp for a
\* backup), the primary's result, what consultar_placa returned or raised
\* (ret; for an inline-store hit, the stored value), the adapters it invoked
\* and its cache writes in order.
NoCall ==
    [task |-> 0, handler |-> "none", placa |-> "none",
     inline |-> FALSE, principal |-> FALSE, erros |-> FALSE,
     resp |-> NoOutcome, bresp |-> NoOutcome, resultado |-> NoValue,
     ret |-> NoValue, calls |-> <<>>, writes |-> <<>>, raced |-> FALSE]

\* Nothing taken yet: the text of an update, the handler that took it, the
\* functions it applied in order (steps), the normalized placa, what
\* validate_plate returned and the reply the handler went on to.
NoEntry ==
    [handler |-> "none", text |-> <<>>, placa |-> <<>>, steps |-> <<>>,
     valid |-> FALSE, plate_type |-> "none", reply |-> "none"]

\* The state after the module is loaded: empty stores, no handler running.
Loaded ==
    /\ cache_principal = <<>>
    /\ cache_erros = <<>>
    /\ cache_inline = <<>>
    /\ window = [tier \in {"principal", "erros"} |-> [k \in Placas |-> 0]]
    /\ pc = [t \in Tasks |-> "idle"]
    /\ handler = [t \in Tasks |-> "none"]
    /\ placa = [t \in Tasks |-> "none"]
    /\ resultado = [t \in Tasks |-> NoValue]
    /\ bi = [t \in Tasks |-> 0]
    /\ calls = [t \in Tasks |-> <<>>]
    /\ raced = [t \in Tasks |-> FALSE]
    /\ updates = 0
    /\ last = NoCall
    /\ obtained = [s \in {"principal", "inline"} |-> [k \in Placas |-> 0]]

\* API_BACKUP_URLS (lines 26-29) comes from the environment.  Init leaves the
\* second backup unset; InitUpstream takes every configuration.
Init ==
    /\ API_BACKUP_URLS \in {urls \in [BackupIndexes -> BOOLEAN] : ~urls[2]}
    /\ Loaded
    /\ entry = NoEntry

InitUpstream ==
    /\ API_BACKUP_URLS \in [BackupIndexes -> BOOLEAN]
    /\ Loaded
    /\ entry = NoEntry

Write(tier, k, v) == [tier |-> tier, key |-> k, value |-> v]

\* What the stores hold for identifier k at this moment.
Seen(h, k) ==
    [inline |-> h = "inline" /\ Contains(cache_inline, inline_cache_key(k), now),
     principal |-> Contains(cache_principal, cache_key(k), now),
     erros |-> Contains(cache_erros, error_key(k), now)]
Missed == [inline |-> FALSE, principal |-> FALSE, erros |-> FALSE]

\* A variant of TierHit that does not test the failures tier.
TierHitResultsOnly(k) ==
    IF Contains(cache_principal, cache_key(k), now) THEN "principal" ELSE "none"
\* A variant of TierHit that tests the failures tier first.
TierHitErrosFirst(k) ==
    IF Contains(cache_erros, error_key(k), now) THEN "erros"
    ELSE IF Contains(cache_principal, cache_key(k), now) THEN "principal"
    ELSE "none"
\* consultar_placa's two membership tests (lines 155-163): the tier whose
\* entry the call returns, or "none" when it goes upstream.
TierHit(k) ==
    IF Contains(cache_principal, cache_key(k), now) THEN "principal"
    ELSE IF Contains(cache_erros, error_key(k), now) THEN "erros"
    ELSE "none"

\* The task is free again (the rest of the handler only sends the answer).
Release(t) ==
    /\ pc' = [pc EXCEPT ![t] = "idle"]
    /\ handler' = [handler EXCEPT ![t] = "none"]
    /\ placa' = [placa EXCEPT ![t] = "none"]
    /\ resultado' = [resultado EXCEPT ![t] = NoValue]
    /\ bi' = [bi EXCEPT ![t] = 0]
    /\ calls' = [calls EXCEPT ![t] = <<>>]

\* A variant of StoresInline that stores whatever the call returned.
StoresInlineAnything(h, v) == h = "inline" /\ v.shape # "raise"
\* Lines 436-437: handle_inline_query stores the value consultar_placa
\* returned when "erro" is not in it (an exception skips the store).
StoresInline(h, v) == h = "inline" /\ v.shape # "raise" /\ ~HasErro(v)

\* The handler's synchronous stretch after consultar_placa ended with v,
\* the tiers being cp and ce by then and wr the call's cache writes:
\* handle_inline_query stores a value without "erro" in the inline store
\* (lines 436-437); an exception is caught by the handler (lines 303, 438).
\* sn, o, bo, r and cl fill the record of the run.
AfterLookup(t, h, k, v, cp, ce, wr, sn, o, bo, r, cl) ==
    LET toInline == StoresInline(h, v)
    IN  /\ cache_principal' = cp
        /\ cache_erros' = ce
        /\ cache_inline' =
              IF toInline
              THEN SetItem(cache_inline, inline_cache_key(k), v, now, ttl_inline, maxsize_inline)
              ELSE cache_inline
        /\ last' = [task |-> t, handler |-> h, placa |-> k,
                    inline |-> sn.inline, principal |-> sn.principal,
                    erros |-> sn.erros, resp |-> o, bresp |-> bo, resultado |-> r,
                    ret |-> v, calls |-> cl,
                    writes |-> wr \o (IF toInline
                                      THEN <<Write("inline", inline_cache_key(k), v)>>
                                      ELSE <<>>),
                    raced |-> raced[t]]
        /\ window' = [tier \in {"principal", "erros"} |-> [p \in Placas |->
              IF \E i \in 1..Len(wr) : wr[i].tier = tier /\ p = k
              THEN IF tier = "principal" THEN ttl_principal ELSE ttl_erros
              ELSE window[tier][p]]]
        /\ raced' = [u \in Tasks |->
              IF u = t THEN FALSE
              ELSE raced[u] \/ (pc[u] # "idle" /\ placa[u] = k /\ cl # <<>>)]
        /\ Release(t)

\* A variant of Complete whose write of a Record also drops the identifier's
\* entry from the failures tier.
CompleteInvalidates(t, d, o, bo, r) ==
    LET k == placa[t]
        cp == IF d.tier = "principal"
              THEN SetItem(cache_principal, cache_key(k), d.value, now, ttl_principal, maxsize_principal)
              ELSE cache_principal
        ce == IF d.tier = "erros"
              THEN SetItem(cache_erros, error_key(k), d.value, now, ttl_erros, maxsize_erros)
              ELSE IF d.tier = "principal" THEN Without(cache_erros, error_key(k))
              ELSE cache_erros
        wr == IF d.tier = "principal" THEN <<Write("principal", cache_key(k), d.value)>>
              ELSE IF d.tier = "erros" THEN <<Write("erros", error_key(k), d.value)>>
              ELSE <<>>
    IN  AfterLookup(t, handler[t], k, d.value, cp, ce, wr, Missed, o, bo, r, calls[t])
\* consultar_placa ends with decision d after going upstream: the one cache
\* write of lines 172, 178, 183 or 185, then the return.
Complete(t, d, o, bo, r) ==
    LET k == placa[t]
        cp == IF d.tier = "principal"
              THEN SetItem(cache_principal, cache_key(k), d.value, now, ttl_principal, maxsize_principal)
              ELSE cache_principal
        ce == IF d.tier = "erros"
              THEN SetItem(cache_erros, error_key(k), d.value, now, ttl_erros, maxsize_erros)
              ELSE cache_erros
        wr == IF d.tier = "principal" THEN <<Write("principal", cache_key(k), d.value)>>
              ELSE IF d.tier = "erros" THEN <<Write("erros", error_key(k), d.value)>>
              ELSE <<>>
    IN  AfterLookup(t, handler[t], k, d.value, cp, ce, wr, Missed, o, bo, r, calls[t])

\* ----------------------------------------------------------------- actions
\* A handler takes an update carrying the valid identifier k and runs up to
\* its first adapter call: the inline store (lines 429-432, inline handler
\* only), then consultar_placa's two membership tests (lines 155-163).
\* Tasks are interchangeable: the update goes to the free task of lowest index.
Begin(t, h, k) ==
    /\ pc[t] = "idle"
    /\ \A u \in Tasks : u < t => pc[u] # "idle"
    /\ updates' = updates + 1
    /\ UNCHANGED API_BACKUP_URLS
    /\ IF h = "inline" /\ Contains(cache_inline, inline_cache_key(k), now)
       THEN /\ last' = [NoCall EXCEPT
                  !.task = t, !.handler = h, !.placa = k, !.inline = TRUE,
                  !.principal = Seen(h, k).principal, !.erros = Seen(h, k).erros,
                  !.ret = GetValue(cache_inline, inline_cache_key(k))]
            /\ cache_inline' = Touch(cache_inline, inline_cache_key(k))
            /\ UNCHANGED <<cache_principal, cache_erros, pc, handler, placa,
                           resultado, bi, calls, raced, window>>
       ELSE IF TierHit(k) = "principal"
       THEN AfterLookup(t, h, k, GetValue(cache_principal, cache_key(k)),
                        Touch(cache_principal, cache_key(k)),
                        cache_erros, <<>>, Seen(h, k), NoOutcome, NoOutcome, NoValue, <<>>)
       ELSE IF TierHit(k) = "erros"
       THEN AfterLookup(t, h, k, GetValue(cache_erros, error_key(k)),
                        cache_principal,
                        Touch(cache_erros, error_key(k)),
                        <<>>, Seen(h, k), NoOutcome, NoOutcome, NoValue, <<>>)
       ELSE /\ pc' = [pc EXCEPT ![t] = "primary"]
            /\ handler' = [handler EXCEPT ![t] = h]
            /\ placa' = [placa EXCEPT ![t] = k]
            /\ calls' = [calls EXCEPT ![t] = <<"primary">>]
            /\ last' = NoCall
            /\ UNCHANGED <<cache_principal, cache_erros, cache_inline, resultado, bi,
                           raced, window>>

\* The primary adapter's request ends with outcome o (line 165); lines
\* 167-187 run up to the first backup request or to the return.
PrimaryReturns(t, o) ==
    /\ pc[t] = "primary"
    /\ UNCHANGED <<API_BACKUP_URLS, updates>>
    /\ LET r == consultar_api_principal(o)
           first == NextBackup(API_BACKUP_URLS, 0)
       IN  IF WantsFallback(r) = "raise"
           THEN Complete(t, Decision("none", Raised("TypeError")), o, NoOutcome, r)
           ELSE IF WantsFallback(r) = "no"
           THEN Complete(t, DecidePrimary(r), o, NoOutcome, r)
           ELSE IF first = 0
           THEN Complete(t, DecideBackup(r, all_apis_failed), o, NoOutcome, r)
           ELSE /\ pc' = [pc EXCEPT ![t] = "backup"]
                /\ resultado' = [resultado EXCEPT ![t] = r]
                /\ bi' = [bi EXCEPT ![t] = first]
                /\ calls' = [calls EXCEPT ![t] = Append(@, BackupName(first))]
                /\ last' = NoCall
                /\ UNCHANGED <<cache_principal, cache_erros, cache_inline, handler,
                               placa, raced, window>>

\* The request to backup bi[t] ends with outcome o (line 142): the loop
\* returns its body, goes on to the next configured backup, or is exhausted.
BackupReturns(t, o) ==
    /\ pc[t] = "backup"
    /\ UNCHANGED <<API_BACKUP_URLS, updates>>
    /\ LET following == NextBackup(API_BACKUP_URLS, bi[t])
       IN  IF BackupAnswers(o)
           THEN Complete(t, DecideBackup(resultado[t], Json(o.body, BackupName(bi[t]))),
                         NoOutcome, o, resultado[t])
           ELSE IF following = 0
           THEN Complete(t, DecideBackup(resultado[t], all_apis_failed),
                         NoOutcome, o, resultado[t])
           ELSE /\ bi' = [bi EXCEPT ![t] = following]
                /\ calls' = [calls EXCEPT ![t] = Append(@, BackupName(following))]
                /\ last' = NoCall
                /\ UNCHANGED <<pc, resultado, cache_principal, cache_erros, cache_inline,
                               handler, placa, raced, window>>

\* TickStep seconds pass: every entry is TickStep older and TickStep nearer
\* to (or further past) its expiry time.  An entry past its expiry time is
\* the same to every operation however far past it is, and so is an entry
\* older than ttl.
Older(c, ttl) ==
    [i \in 1..Len(c) |->
        [c[i] EXCEPT !.expires = IF @ - TickStep > now THEN @ - TickStep ELSE now,
                     !.age = IF @ + TickStep < ttl THEN @ + TickStep ELSE ttl]]

Tick ==
    /\ cache_principal' = Older(cache_principal, ttl_principal)
    /\ cache_erros' = Older(cache_erros, ttl_erros)
    /\ cache_inline' = Older(cache_inline, ttl_inline)
    /\ window' = [tier \in {"principal", "erros"} |-> [p \in Placas |->
          IF window[tier][p] - TickStep > 0 THEN window[tier][p] - TickStep ELSE 0]]
    /\ last' = NoCall
    /\ UNCHANGED <<API_BACKUP_URLS, pc, handler, placa, resultado, bi, calls, raced, updates>>

\* The bot under concurrent updates, its upstreams behaving as they
\* commonly do.
Next ==
    /\ \/ \E t \in Tasks, h \in {"message", "inline"}, k \in Placas :
             updates < MaxUpdates /\ Begin(t, h, k)
       \/ \E t \in Tasks, o \in CommonPrimary : PrimaryReturns(t, o)
       \/ \E t \in Tasks, o \in CommonBackup : BackupReturns(t, o)
       \/ Tick
    /\ UNCHANGED <<entry, obtained>>

Spec == Init /\ [][Next]_vars

\* One handler at a time, its upstreams doing anything an HTTP exchange can.
NextUpstream ==
    /\ \/ \E h \in {"message", "inline"}, k \in Placas :
             updates < MaxCalls /\ Begin(1, h, k)
       \/ \E o \in PrimaryOutcomes : PrimaryReturns(1, o)
       \/ \E o \in BackupOutcomes : BackupReturns(1, o)
       \/ Tick
    /\ UNCHANGED <<entry, obtained>>

SpecUpstream == InitUpstream /\ [][NextUpstream]_vars

\* One call at a time, under every backup configuration.  Every request ends:
\* the client has a timeout (line 80), so an awaited adapter returns.
NextOneCall ==
    /\ \/ \E h \in {"message", "inline"}, k \in Placas :
             updates < MaxPasses /\ Begin(1, h, k)
       \/ \E o \in CommonPrimary : PrimaryReturns(1, o)
       \/ \E o \in CommonBackup : BackupReturns(1, o)
       \/ Tick
    /\ UNCHANGED <<entry, obtained>>

SpecOneCall ==
    /\ InitUpstream
    /\ [][NextOneCall]_vars
    /\ WF_vars((\E o \in CommonPrimary : PrimaryReturns(1, o)) /\ UNCHANGED <<entry, obtained>>)
    /\ WF_vars((\E o \in CommonBackup : BackupReturns(1, o)) /\ UNCHANGED <<entry, obtained>>)

\* Concurrent updates of which no two for one identifier are in flight
\* together: an update for k is taken only while no call for k is awaiting
\* an adapter.
NextSerial ==
    /\ \/ \E t \in Tasks, h \in {"message", "inline"}, k \in Placas :
             /\ updates < MaxUpdates
             /\ \A u \in Tasks : pc[u] # "idle" => placa[u] # k
             /\ Begin(t, h, k)
       \/ \E t \in Tasks, o \in CommonPrimary : PrimaryReturns(t, o)
       \/ \E t \in Tasks, o \in CommonBackup : BackupReturns(t, o)
       \/ Tick
    /\ UNCHANGED <<entry, obtained>>

SpecSerial == Init /\ [][NextSerial]_vars

\* ------------------------------------------------------------ entry points
\* What a handler makes of the text of an update before any cache or
\* adapter: handle_message lines 248-278, handle_inline_query lines 373-427.
\* reply is "none" (handle_message returns on an empty text), "prompt" (the
\* inline handler's answer to an empty query), "invalid_length" (the length
\* gate's reply), "invalid_format" (the reply to a text validate_plate
\* rejects) or "lookup" (the handler goes on to the caches).
Rejects(h, raw, steps, reply) ==
    [handler |-> h, text |-> raw, placa |-> <<>>, steps |-> steps,
     valid |-> FALSE, plate_type |-> "none", reply |-> reply]

\* A variant of Screen that goes on to the lookup with whatever normalizes.
ScreenUnchecked(h, raw) ==
    [handler |-> h, text |-> raw, placa |-> normalize_plate(Strip(raw)),
     steps |-> <<"strip", "normalize_plate">>,
     valid |-> TRUE, plate_type |-> "antiga", reply |-> "lookup"]
Screen(h, raw) ==
    LET text == Strip(raw)
        plate == normalize_plate(text)
        v == validate_plate(plate)
        gate == IF h = "message" THEN 7 <= Len(text) /\ Len(text) <= 8
                ELSE Len(plate) = 7
    IN  IF h = "message" /\ raw = <<>> THEN Rejects(h, raw, <<>>, "none")
        ELSE IF h = "inline" /\ text = <<>> THEN Rejects(h, raw, <<"strip">>, "prompt")
        ELSE IF ~gate
        THEN [Rejects(h, raw, <<"strip", "normalize_plate", "length_gate">>,
                      "invalid_length") EXCEPT !.placa = plate]
        ELSE IF ~v[1]
        THEN [Rejects(h, raw, <<"strip", "normalize_plate", "length_gate",
                                "validate_plate">>, "invalid_format")
                 EXCEPT !.placa = plate]
        ELSE [handler |-> h, text |-> raw, placa |-> plate,
              steps |-> <<"strip", "normalize_plate", "length_gate", "validate_plate">>,
              valid |-> TRUE, plate_type |-> v[2], reply |-> "lookup"]

\* A handler takes an update carrying the text raw: it replies to a text it
\* rejects and returns, or goes on as Begin does with the normalized placa.
Receive(t, h, raw) ==
    LET sc == Screen(h, raw)
        k == Str(sc.placa)
    IN  IF sc.reply = "lookup"
        THEN /\ Begin(t, h, k)
             /\ entry' = [sc EXCEPT !.steps =
                   @ \o (IF h = "message" THEN <<"consultar_placa">>
                         ELSE IF Contains(cache_inline, inline_cache_key(k), now)
                         THEN <<"cache_inline">>
                         ELSE <<"cache_inline", "consultar_placa">>)]
        ELSE /\ pc[t] = "idle"
             /\ \A u \in Tasks : u < t => pc[u] # "idle"
             /\ updates' = updates + 1
             /\ entry' = sc
             /\ last' = NoCall
             /\ UNCHANGED <<cache_principal, cache_erros, cache_inline, API_BACKUP_URLS,
                            pc, handler, placa, resultado, bi, calls, raced, window>>

\* Texts users type: plates of the three kinds, in lowercase, with a hyphen,
\* with spaces around; texts too short, too long, with punctuation in a
\* plate's place, of plate length but of no plate's shape; nothing at all.
Texts ==
    { <<"A", "B", "C", "1", "2", "3", "4">>,
      <<"a", "b", "c", "1", "d", "2", "3">>,
      <<"A", "B", "C", "1", "2", "D", "3">>,
      <<"A", "B", "C", "-", "1", "2", "3", "4">>,
      <<" ", "A", "B", "C", "1", "2", "3", "4", " ">>,
      <<"A", "B", "C", "-", "1", "-", "2", "3", "4">>,
      <<"A", "B", "#", "1", "D", "2", "3">>,
      <<"A", "B", "C", "1", "2", "3", "4", "9">>,
      <<"1", "2", "3", "4", "A", "B", "C">>,
      <<"A", "B", "C">>,
      <<"A", "B", "C", "1", "2", "3", "4", "9", "9">>,
      <<" ">>,
      <<>> }

\* One handler at a time, taking the texts users type.
NextEntry ==
    \/ \E h \in {"message", "inline"}, raw \in Texts :
          updates < MaxPasses /\ Receive(1, h, raw) /\ UNCHANGED obtained
    \/ \E o \in CommonPrimary : PrimaryReturns(1, o) /\ UNCHANGED <<entry, obtained>>
    \/ \E o \in CommonBackup : BackupReturns(1, o) /\ UNCHANGED <<entry, obtained>>
    \/ Tick /\ UNCHANGED <<entry, obtained>>

SpecEntry == Init /\ [][NextEntry]_vars

\* PlateValidator on its own: a text, and the validator's two functions
\* applied to it in any order.
SevenChars == [1..7 -> {"A", "Z", "0", "9"}]
TypedChars == {"a", "B", "7", " ", "-", "ß"}
ShortTexts == UNION {[1..n -> TypedChars] : n \in 0..MaxLen}

InitValidator ==
    /\ API_BACKUP_URLS = [i \in BackupIndexes |-> FALSE]
    /\ Loaded
    /\ entry \in {[NoEntry EXCEPT !.text = s] : s \in SevenChars \cup ShortTexts}

\* plate = PlateValidator.normalize_plate(plate)
ApplyNormalize ==
    /\ Len(entry.steps) < MaxApply
    /\ entry' = [entry EXCEPT !.text = normalize_plate(@),
                              !.steps = Append(@, "normalize_plate"),
                              !.valid = FALSE, !.plate_type = "none"]

\* is_valid, plate_type = PlateValidator.validate_plate(plate)
ApplyValidate ==
    /\ Len(entry.steps) < MaxApply
    /\ entry' = [entry EXCEPT !.steps = Append(@, "validate_plate"),
                              !.valid = validate_plate(entry.text)[1],
                              !.plate_type = validate_plate(entry.text)[2]]

NextValidator ==
    /\ ApplyNormalize \/ ApplyValidate
    /\ UNCHANGED <<cache_principal, cache_erros, cache_inline, API_BACKUP_URLS, pc,
                   handler, placa, resultado, bi, calls, raced, updates, window, last,
                   obtained>>

SpecValidator == InitValidator /\ [][NextValidator]_vars

\* ------------------------------------------------------------ the claims
Tiers == {"principal", "erros"}
Store(tier) == IF tier = "principal" THEN cache_principal ELSE cache_erros
KeyIn(tier, k) == IF tier = "principal" THEN cache_key(k) ELSE error_key(k)

\* This step, task t takes an update for identifier k and calls
\* consultar_placa (an inline-store hit never calls it).
LookupStarts(t, k) ==
    /\ updates' = updates + 1
    /\ pc[t] = "idle"
    /\ \/ pc'[t] = "primary" /\ placa'[t] = k
       \/ last'.task = t /\ last'.placa = k /\ ~last'.inline

\* This step, the call that task t starts ends at once, without any adapter.
ServedFromCache(t) == last'.task = t /\ last'.calls = <<>> /\ pc'[t] = "idle"

\* C1 as stated: a lookup of an identifier issued within the TTL of an
\* earlier lookup's cache write for it invokes no adapter, whatever was
\* looked up in between.
C1_AnyLookupsBetween ==
    [][\A t \in Tasks, k \in Placas :
          (LookupStarts(t, k) /\ \E tier \in Tiers : window[tier][k] > 0)
          => ServedFromCache(t)]_vars

\* C1, amended: a lookup of an identifier issued within the TTL of an earlier
\* lookup's cache write for it invokes no adapter, provided the entry that
\* was written is still in its store (a full store drops its least recently
\* used entry for a new key).
C1_CachePrecedence ==
    [][\A t \in Tasks, k \in Placas :
          (LookupStarts(t, k) /\ \E tier \in Tiers :
                window[tier][k] > 0 /\ HasKey(Store(tier), KeyIn(tier, k)))
          => ServedFromCache(t)]_vars

\* A second lookup was served from a tier some time after the write.
C1_Witness ==
    /\ last.task # 0 /\ ~last.inline /\ last.calls = <<>>
    /\ \E tier \in Tiers :
          /\ 0 < window[tier][last.placa]
          /\ window[tier][last.placa] < (IF tier = "principal" THEN ttl_principal ELSE ttl_erros)
          /\ HasKey(Store(tier), KeyIn(tier, last.placa))

GatedKinds == {"not_found", "rate_limit"}

\* This step, the call of task t that went upstream ends, its primary
\* adapter having yielded a failure of a gated kind.
GatedLookupEnds(t) ==
    /\ pc[t] # "idle"
    /\ last'.task = t
    /\ last'.resultado.shape = "dict"
    /\ last'.resultado.erro \in GatedKinds

\* The first half of C3: no backup adapter, the primary's failure written to
\* the failures tier under the identifier and returned.
C3_Gating(t) ==
    /\ (pc'[t] = "backup" => resultado'[t].erro \notin GatedKinds)
    /\ GatedLookupEnds(t) =>
          /\ last'.calls = <<"primary">>
          /\ last'.ret = last'.resultado
          /\ last'.writes = <<Write("erros", error_key(last'.placa), last'.resultado)>>
          /\ HasKey(cache_erros', error_key(last'.placa))
          /\ GetValue(cache_erros', error_key(last'.placa)) = last'.resultado

\* The step before ended a gated lookup of k and this step task u looks k
\* up again.
ImmediateRetry(u, k) ==
    /\ last.task # 0 /\ last.placa = k /\ last.calls # <<>>
    /\ last.resultado.shape = "dict" /\ last.resultado.erro \in GatedKinds
    /\ LookupStarts(u, k)

\* C3 as stated: when the primary adapter yields not_found or rate_limit the
\* lookup invokes no backup, writes that failure into the failures tier and
\* returns it, and an immediate retry returns the cached failure with no
\* adapter call.
C3_RetryReturnsFailure ==
    [][\A t \in Tasks, k \in Placas :
          /\ C3_Gating(t)
          /\ ImmediateRetry(t, k) => (ServedFromCache(t) /\ last'.ret = last.ret)]_vars

\* C3, amended: when the primary adapter yields not_found or rate_limit the
\* lookup invokes no backup, writes that failure into the failures tier and
\* returns it; an immediate retry invokes no adapter and returns the cached
\* failure, unless the results tier holds an unexpired Record for the
\* identifier (a concurrent lookup's), which it returns instead.
C3_FallbackGating ==
    [][\A t \in Tasks, k \in Placas :
          /\ C3_Gating(t)
          /\ ImmediateRetry(t, k) =>
                /\ ServedFromCache(t)
                /\ last'.ret = IF Contains(cache_principal, cache_key(k), now)
                               THEN GetValue(cache_principal, cache_key(k))
                               ELSE last.ret]_vars

\* A retry was answered with the gated failure written just before.
C3_Witness ==
    /\ last.task # 0 /\ ~last.inline /\ last.calls = <<>>
    /\ last.erros /\ ~last.principal
    /\ HasErro(last.ret) /\ last.ret.erro \in GatedKinds
    /\ window["erros"][last.placa] = ttl_erros

\* An adapter outcome that carries a Record: status 200 and a JSON object
\* without "erro".
IsRecord(o) ==
    o.exc = "none" /\ o.status = 200 /\ o.body = [shape |-> "dict", erro |-> "none"]

\* This step, the call of task t ends.
LookupEnds(t) == pc[t] # "idle" /\ last'.task = t

\* The writes of the ended call to the two tiers, in order.
TierWrites(wr) == SelectSeq(wr, LAMBDA w : w.tier \in Tiers)

\* C4 as stated: after a primary failure of kind payment_required,
\* api_error, timeout or http_error the configured backups are invoked one
\* at a time in configured order, every backup that fails in any way is
\* skipped, and the lookup ends at the first backup that returns a Record,
\* with that Record.
C4_FallbackOrder ==
    [][\A t \in Tasks :
          /\ (pc[t] = "primary" /\ pc'[t] = "backup") =>
                /\ resultado'[t].erro \in FallbackKinds
                /\ bi'[t] = NextBackup(API_BACKUP_URLS, 0)
          /\ (pc[t] = "backup" /\ pc'[t] = "backup" /\ calls'[t] # calls[t]) =>
                /\ bi'[t] = NextBackup(API_BACKUP_URLS, bi[t])
                /\ calls'[t] = Append(calls[t], BackupName(bi'[t]))
          /\ (pc[t] = "backup" /\ LookupEnds(t)) =>
                \/ /\ IsRecord(last'.bresp)
                   /\ last'.ret = Json(last'.bresp.body, BackupName(bi[t]))
                \/ NextBackup(API_BACKUP_URLS, bi[t]) = 0]_vars

\* C5: when a backup returns a Record, the lookup writes that Record into
\* the results tier under the identifier, returns it, and writes nothing
\* into the failures tier.
C5_BackupSuccess ==
    [][\A t \in Tasks :
          (pc[t] = "backup" /\ LookupEnds(t) /\ IsRecord(last'.bresp)) =>
             LET rec == Json(last'.bresp.body, BackupName(bi[t]))
             IN  /\ last'.ret = rec
                 /\ TierWrites(last'.writes) = <<Write("principal", cache_key(placa[t]), rec)>>
                 /\ HasKey(cache_principal', cache_key(placa[t]))
                 /\ GetValue(cache_principal', cache_key(placa[t])) = rec
                 /\ cache_erros' = cache_erros]_vars

\* The first backup failed and the second one's Record was returned.
C5_Witness ==
    /\ last.task # 0
    /\ last.calls = <<"primary", "backup1", "backup2">>
    /\ IsRecord(last.bresp)
    /\ last.ret.src = "backup2"
    /\ HasKey(cache_principal, cache_key(last.placa))

\* No store holds the aggregate failure.
Holds_all_apis_failed(c) == \E i \in 1..Len(c) : c[i].value.erro = "all_apis_failed"

\* C6 as stated: when fallback is attempted and no backup returns a Record
\* (every configured one fails, or none is configured), the lookup writes
\* the original primary failure into the failures tier and returns it;
\* all_apis_failed is never returned and never stored.
C6_BackupExhaustion ==
    [][\A t \in Tasks :
          /\ (LookupEnds(t) /\ last'.resultado.shape = "dict"
              /\ last'.resultado.erro \in FallbackKinds /\ ~IsRecord(last'.bresp)) =>
                /\ last'.ret = last'.resultado
                /\ TierWrites(last'.writes) =
                      <<Write("erros", error_key(placa[t]), last'.resultado)>>
                /\ HasKey(cache_erros', error_key(placa[t]))
                /\ GetValue(cache_erros', error_key(placa[t])) = last'.resultado
          /\ LookupEnds(t) => last'.ret.erro # "all_apis_failed"
          /\ ~Holds_all_apis_failed(cache_principal')
          /\ ~Holds_all_apis_failed(cache_erros')
          /\ ~Holds_all_apis_failed(cache_inline')]_vars

\* C7 as stated: whenever the primary adapter answers 2xx with a parseable
\* body, the lookup takes the body as a Record, writes it into the results
\* tier, returns it, invokes no backup and writes nothing into the failures
\* tier.
C7_PrimarySuccess ==
    [][\A t \in Tasks :
          (pc[t] = "primary" /\ LookupEnds(t) /\ last'.resp.exc = "none"
           /\ IsSuccess(last'.resp.status) /\ last'.resp.body.shape # "invalid") =>
             LET rec == Json(last'.resp.body, "primary")
             IN  /\ last'.ret = rec
                 /\ last'.calls = <<"primary">>
                 /\ TierWrites(last'.writes) = <<Write("principal", cache_key(placa[t]), rec)>>
                 /\ cache_erros' = cache_erros]_vars

\* The entries a store holds under key k, expired or not.
Copies(c, k) == Cardinality({i \in 1..Len(c) : c[i].key = k})

\* C8 as stated: after two overlapping lookups of the same identifier have
\* both completed, at most one of their outcomes is held for the identifier,
\* counting the results tier and the failures tier together.
C8_OneOutcomeHeld ==
    last.raced =>
       ~(/\ Contains(cache_principal, cache_key(last.placa), now)
         /\ Contains(cache_erros, error_key(last.placa), now))

\* C8, amended: two overlapping lookups of the same identifier may each
\* invoke the primary adapter; after both complete each tier holds at most
\* one entry for the identifier, the one written last to that tier, and a
\* tier the second lookup did not write is as the first left it; the results
\* tier and the failures tier may each hold one.
C8_ConcurrentLookups ==
    [][\A t \in Tasks :
          (LookupEnds(t) /\ raced[t]) =>
             \A tier \in Tiers :
                LET key == KeyIn(tier, placa[t])
                    after == IF tier = "principal" THEN cache_principal' ELSE cache_erros'
                IN  /\ Copies(after, key) <= 1
                    /\ IF \E i \in 1..Len(last'.writes) : last'.writes[i].tier = tier
                       THEN HasKey(after, key) /\ GetValue(after, key) = last'.ret
                       ELSE after = Store(tier)]_vars

\* Two overlapping lookups of one identifier both went upstream and left a
\* Record in the results tier and a failure in the failures tier.
C8_Witness ==
    /\ last.raced /\ last.calls # <<>>
    /\ Contains(cache_principal, cache_key(last.placa), now)
    /\ Contains(cache_erros, error_key(last.placa), now)

\* The three stores with their lifetimes.
Stores ==
    {[c |-> cache_principal, ttl |-> ttl_principal],
     [c |-> cache_erros, ttl |-> ttl_erros],
     [c |-> cache_inline, ttl |-> ttl_inline]}

\* C9: in every store an entry written ttl or more seconds ago is reported
\* absent, and the time an entry has left is its ttl less the time since it
\* was written, whatever reads hit it since.
C9_CacheExpiry ==
    \A s \in Stores : \A i \in 1..Len(s.c) :
        /\ s.c[i].expires - now = s.ttl - s.c[i].age
        /\ s.c[i].age >= s.ttl => ~Contains(s.c, s.c[i].key, now)

\* A lookup that nothing overlapped went upstream although a tier still
\* held an entry for its identifier, written ttl or more seconds before.
C9_Witness ==
    /\ last.task # 0 /\ last.calls # <<>> /\ ~last.raced
    /\ \E tier \in Tiers :
          /\ HasKey(Store(tier), KeyIn(tier, last.placa))
          /\ Entry(Store(tier), KeyIn(tier, last.placa)).age
                >= (IF tier = "principal" THEN ttl_principal ELSE ttl_erros)
          /\ \A i \in 1..Len(last.writes) : last.writes[i].tier # tier

\* C10: no store ever holds more entries than its maxsize.
C10_CapacityBound ==
    /\ Len(cache_principal) <= maxsize_principal
    /\ Len(cache_erros) <= maxsize_erros
    /\ Len(cache_inline) <= maxsize_inline

\* A full failures store dropped an entry that had not expired to take
\* another identifier's.
C10_Witness ==
    /\ Len(cache_erros) = maxsize_erros
    /\ \E k \in Placas :
          window["erros"][k] > 0 /\ ~HasKey(cache_erros, error_key(k))

\* The ended call wrote the given tier.
Wrote(wr, tier) == \E i \in 1..Len(wr) : wr[i].tier = tier

\* C11: a write into the results tier leaves every entry of the failures
\* tier as it was, a write into the failures tier leaves every entry of the
\* results tier as it was, and neither changes the inline tier (which only
\* the inline handler's own store changes).
C11_TierIndependence ==
    [][\A t \in Tasks :
          LookupEnds(t) =>
             /\ Wrote(last'.writes, "principal") => cache_erros' = cache_erros
             /\ Wrote(last'.writes, "erros") => cache_principal' = cache_principal
             /\ ~Wrote(last'.writes, "inline") => cache_inline' = cache_inline]_vars

\* A Record was written for an identifier while the failures tier held an
\* unexpired entry for it, and the failures tier still holds it.
C11_Witness ==
    /\ last.task # 0 /\ Wrote(last.writes, "principal")
    /\ Contains(cache_erros, error_key(last.placa), now)

\* C13: no entry of the inline store is a failure (a value with "erro").
C13_InlineOnlyRecords ==
    \A i \in 1..Len(cache_inline) : ~HasErro(cache_inline[i].value)

\* An inline query was answered with a failure while the inline store held
\* a Record.
C13_Witness ==
    /\ last.task # 0 /\ last.handler = "inline" /\ HasErro(last.ret)
    /\ Len(cache_inline) > 0

\* The classification the primary adapter is to give an outcome: a failure
\* kind, or "record" for a 2xx response with a parseable body.
ExpectedKind(o) ==
    IF o.exc = "timeout" THEN "timeout"
    ELSE IF o.exc # "none" THEN "api_error"
    ELSE IF o.status = 402 THEN "payment_required"
    ELSE IF o.status = 404 THEN "not_found"
    ELSE IF o.status = 429 THEN "rate_limit"
    ELSE IF o.status < 200 \/ o.status > 299 THEN "http_error"
    ELSE IF o.body.shape = "invalid" THEN "api_error"
    ELSE "record"

\* C14: the primary adapter maps a transport timeout to timeout, 402 to
\* payment_required, 404 to not_found, 429 to rate_limit, any other non-2xx
\* status to http_error, any other exception (transport or body parsing) to
\* api_error, and hands back the parsed body only for a parseable 2xx
\* response.
C14_PrimaryClassification ==
    (last.task # 0 /\ last.resp # NoOutcome) =>
       IF ExpectedKind(last.resp) = "record"
       THEN last.resultado = Json(last.resp.body, "primary")
       ELSE /\ last.resultado.shape = "dict"
            /\ last.resultado.src = "primary"
            /\ last.resultado.erro = ExpectedKind(last.resp)

\* The primary answered 2xx with a body that is not JSON and the adapter
\* returned api_error.
C14_Witness ==
    /\ last.task # 0
    /\ last.resp.exc = "none" /\ last.resp.status = 200
    /\ last.resp.body.shape = "invalid"
    /\ last.resultado.erro = "api_error"

\* C15 as stated: whatever the adapters' outcomes and the cache state, a
\* lookup ends by returning a value, never with an exception.
C15_NoFaultEscapes ==
    (last.task # 0 /\ ~last.inline) => last.ret.shape # "raise"

\* No adapter occurs twice in a sequence of calls.
NoRepeats(cl) == \A i, j \in 1..Len(cl) : cl[i] = cl[j] => i = j

\* One step of a call goes forward: from the cache checks to the primary,
\* from the primary to the backups or the end, from a backup to the next or
\* the end; the adapters invoked so far only grow, by one at a time.
Forward(t) ==
    /\ pc[t] = "idle" => pc'[t] \in {"idle", "primary"}
    /\ pc[t] = "primary" => pc'[t] \in {"primary", "backup", "idle"}
    /\ pc[t] = "backup" => pc'[t] \in {"backup", "idle"}
    /\ (pc[t] # "idle" /\ pc'[t] # "idle") =>
          \/ calls'[t] = calls[t]
          \/ \E a \in {"backup1", "backup2"} : calls'[t] = Append(calls[t], a)
    /\ NoRepeats(calls'[t])
    /\ LookupEnds(t) => last'.calls = calls[t]

\* C16: a call goes forward through the cache checks, the primary, the
\* backups and the cache write without going back, invokes the primary at
\* most once and each backup at most once, goes upstream only when neither
\* tier holds an unexpired entry for the identifier, and always ends.
C16_SinglePass ==
    /\ [][\A t \in Tasks :
             /\ Forward(t)
             /\ \A k \in Placas :
                   (LookupStarts(t, k) /\ pc'[t] = "primary") =>
                      /\ ~Contains(cache_erros, error_key(k), now)
                      /\ ~Contains(cache_principal, cache_key(k), now)
                      /\ calls'[t] = <<"primary">>]_vars
    /\ \A t \in Tasks : (pc[t] # "idle") ~> (pc[t] = "idle")

\* A later call for an identifier went upstream and through both backups
\* while the failures tier still held the identifier's expired entry.
C16_Witness ==
    /\ pc[1] = "backup"
    /\ calls[1] = <<"primary", "backup1", "backup2">>
    /\ HasKey(cache_erros, error_key(placa[1]))
    /\ ~Contains(cache_erros, error_key(placa[1]), now)

\* C20: when no two calls for one identifier overlap, no identifier has an
\* unexpired entry in the results tier and one in the failures tier at the
\* same moment.
C20_NeverBothTiers ==
    \A k \in Placas :
        ~(/\ Contains(cache_principal, cache_key(k), now)
          /\ Contains(cache_erros, error_key(k), now))

\* An identifier has an unexpired Record while its earlier failure, expired,
\* is still in the failures tier, and a call for another identifier is in
\* flight.
C20_Witness ==
    \E k \in Placas :
        /\ Contains(cache_principal, cache_key(k), now)
        /\ HasKey(cache_erros, error_key(k))
        /\ \E t \in Tasks : pc[t] # "idle" /\ placa[t] # k

\* The step just applied.
LastStep(e) == IF e.steps = <<>> THEN "none" ELSE e.steps[Len(e.steps)]

\* The three shapes of a plate, place by place.
IsLetter(ch) == ch \in {"A", "Z"}
IsDigit(ch) == ch \in {"0", "9"}
Shaped(p, letters, digits) ==
    /\ Len(p) = 7
    /\ \A i \in letters : IsLetter(p[i])
    /\ \A i \in digits : IsDigit(p[i])
Legacy(p) == Shaped(p, {1, 2, 3}, {4, 5, 6, 7})
Current(p) == Shaped(p, {1, 2, 3, 5}, {4, 6, 7})
TwoWheeler(p) == Shaped(p, {1, 2, 3, 6}, {4, 5, 7})

\* C17: over the seven-character strings of uppercase letters and digits,
\* validate_plate returns (true, antiga) exactly for 3 letters + 4 digits,
\* (true, mercosul) exactly for 3 letters + digit + letter + 2 digits,
\* (true, moto_mercosul) exactly for 3 letters + 2 digits + letter + digit and
\* (false, invalid) for every other; no string matches two patterns.
C17_ClassifyExact ==
    (LastStep(entry) = "validate_plate" /\ entry.text \in SevenChars) =>
       LET p == entry.text
           verdict == <<entry.valid, entry.plate_type>>
       IN  /\ verdict = <<TRUE, "antiga">> <=> Legacy(p)
           /\ verdict = <<TRUE, "mercosul">> <=> Current(p)
           /\ verdict = <<TRUE, "moto_mercosul">> <=> TwoWheeler(p)
           /\ verdict = <<FALSE, "invalid">> <=> ~(Legacy(p) \/ Current(p) \/ TwoWheeler(p))
           /\ Cardinality({i \in 1..Len(PLATE_PATTERNS) :
                              Match(PLATE_PATTERNS[i].pattern, p)}) <= 1

\* A two-wheeler plate was classified.
C17_Witness ==
    /\ LastStep(entry) = "validate_plate"
    /\ entry.text = <<"A", "Z", "A", "0", "9", "Z", "0">>
    /\ entry.plate_type = "moto_mercosul"

\* C19: normalize_plate returns only characters of [A-Z0-9], and applied to
\* its own result returns it unchanged.
C19_NormalizeIdempotent ==
    [][(entry'.steps = Append(entry.steps, "normalize_plate")) =>
          /\ \A i \in 1..Len(entry'.text) : entry'.text[i] \in AZ \cup Digits09
          /\ LastStep(entry) = "normalize_plate" => entry'.text = entry.text]_vars

\* A text with a lowercase letter and a letter whose uppercase is two
\* letters was normalized twice.
C19_Witness ==
    /\ entry.steps = <<"normalize_plate", "normalize_plate">>
    /\ entry.text = <<"A", "S", "S", "7">>

\* This step, handler h takes an update carrying the text raw.
Takes(h, raw) ==
    updates' = updates + 1 /\ entry'.handler = h /\ entry'.text = raw

\* The positions of a step in a run's steps.
Places(steps, name) == {i \in 1..Len(steps) : steps[i] = name}
CacheSteps(steps) == Places(steps, "cache_inline") \cup Places(steps, "consultar_placa")

\* The text reaches the length gate (handle_message returns on an empty
\* text and the inline handler answers an empty query with a prompt) and
\* fails it, or its normalized form is no plate.
Invalid(h, raw) ==
    /\ IF h = "message" THEN raw # <<>> ELSE Strip(raw) # <<>>
    /\ \/ h = "message" /\ ~(7 <= Len(Strip(raw)) /\ Len(Strip(raw)) <= 8)
       \/ h = "inline" /\ Len(normalize_plate(Strip(raw))) # 7
       \/ ~validate_plate(normalize_plate(Strip(raw)))[1]

\* C12: on both entry points a text that fails the length gate or that
\* validate_plate rejects gets an invalid-format reply with no cache tier
\* read or written and no adapter invoked; validate_plate runs before the
\* first cache or adapter access.
C12_InvalidShortCircuits ==
    [][\A h \in {"message", "inline"}, raw \in Texts :
          Takes(h, raw) =>
             /\ Invalid(h, raw) =>
                   /\ entry'.reply \in {"invalid_length", "invalid_format"}
                   /\ CacheSteps(entry'.steps) = {}
                   /\ UNCHANGED <<cache_principal, cache_erros, cache_inline, pc, calls>>
                   /\ last' = NoCall
             /\ (\/ CacheSteps(entry'.steps) # {}
                 \/ <<cache_principal, cache_erros, cache_inline, pc>>'
                       # <<cache_principal, cache_erros, cache_inline, pc>>
                 \/ last'.task # 0) =>
                   /\ Places(entry'.steps, "validate_plate") # {}
                   /\ \A i \in Places(entry'.steps, "validate_plate"),
                         j \in CacheSteps(entry'.steps) : i < j]_vars

\* A text of eight characters that is no plate was rejected while the
\* results tier held a Record, and the tiers are as they were.
C12_Witness ==
    /\ entry.reply = "invalid_format"
    /\ entry.text = <<"A", "B", "C", "1", "2", "3", "4", "9">>
    /\ Len(cache_principal) > 0

\* C18 as stated: on the direct-message entry point a text whose normalized
\* form is not exactly 7 characters is rejected by the length gate before
\* validate_plate is called, and a text whose length is outside [7,8] is
\* rejected before it is normalized.
C18_GateBeforeClassify ==
    [][\A raw \in Texts :
          (Takes("message", raw) /\ raw # <<>>) =>
             /\ Len(normalize_plate(raw)) # 7 =>
                   /\ entry'.reply = "invalid_length"
                   /\ Places(entry'.steps, "validate_plate") = {}
             /\ ~(7 <= Len(Strip(raw)) /\ Len(Strip(raw)) <= 8) =>
                   Places(entry'.steps, "normalize_plate") = {}]_vars

\* The entries of a store, whatever their order of use.
Entries(c) == {c[i] : i \in 1..Len(c)}

TierTtl(tier) == IF tier = "principal" THEN ttl_principal ELSE ttl_erros
TierMaxsize(tier) == IF tier = "principal" THEN maxsize_principal ELSE maxsize_erros

\* Store c became store d by one write under key: every other entry of d was
\* in c as it is, and an entry of c that is gone had expired or was dropped
\* to make room for a key the full store did not hold.
OthersOnlyLeave(c, d, key, maxsize) ==
    /\ \A e \in Entries(d) : e.key # key => e \in Entries(c)
    /\ \A e \in Entries(c) :
          (e.key # key /\ e \notin Entries(d)) =>
             \/ ~(now < e.expires)
             \/ /\ Len(Expire(c, now)) >= maxsize
                /\ ~HasKey(Expire(c, now), key)

\* This step the call of task t, having gone upstream, ends with exactly one
\* write, of the value it returns, into the given tier under its identifier.
WritesOnce(t, tier) ==
    LET key == KeyIn(tier, placa[t])
        other == CHOOSE o \in Tiers : o # tier
        before == Store(tier)
        after == IF tier = "principal" THEN cache_principal' ELSE cache_erros'
    IN  /\ TierWrites(last'.writes) = <<Write(tier, key, last'.ret)>>
        /\ Copies(after, key) = 1
        /\ Entry(after, key).value = last'.ret
        /\ Entry(after, key).expires = now + TierTtl(tier)
        /\ OthersOnlyLeave(before, after, key, TierMaxsize(tier))
        /\ (IF other = "principal" THEN cache_principal' ELSE cache_erros') = Store(other)

\* C21 as stated: a call served from the results or the failures tier
\* leaves every entry of both tiers as it was, expiry time included; a call
\* that goes upstream makes exactly one write, into exactly one of the two
\* tiers, under its own identifier, and other identifiers' entries of that
\* tier only leave it, by expiry or by eviction.
C21_WriteFootprint ==
    [][\A t \in Tasks :
          /\ \A k \in Placas :
                (LookupStarts(t, k) /\ ServedFromCache(t)) =>
                   /\ Entries(cache_principal') = Entries(cache_principal)
                   /\ Entries(cache_erros') = Entries(cache_erros)
                   /\ TierWrites(last'.writes) = <<>>
          /\ LookupEnds(t) => \E tier \in Tiers : WritesOnce(t, tier)]_vars

\* ---------------------------------------------------- the age of a value
\* obtained follows a value from the adapter that returned it into the
\* stores: 0 when the call that went upstream writes it (lines 165-185, 437),
\* the results tier's figure when the inline handler stores what a results
\* hit returned (lines 157, 437), growing with time, and 0 under a key the
\* store does not hold.  It stops growing at StaleCap, beyond every lifetime.
StaleCap == ttl_principal + ttl_inline + TickStep

Ageing(dt) ==
    obtained' = [s \in {"principal", "inline"} |-> [p \in Placas |->
        LET c == IF s = "principal" THEN cache_principal' ELSE cache_inline'
            key == IF s = "principal" THEN cache_key(p) ELSE inline_cache_key(p)
            written == last'.task # 0 /\ last'.placa = p /\ Wrote(last'.writes, s)
            aged == obtained[s][p] + dt
        IN  IF ~HasKey(c, key) THEN 0
            ELSE IF ~written THEN (IF aged < StaleCap THEN aged ELSE StaleCap)
            ELSE IF last'.calls # <<>> THEN 0
            ELSE obtained["principal"][p]]]

\* One handler at a time over a long stretch of time, the age of every
\* stored value kept.
NextStaleness ==
    /\ \/ \E h \in {"message", "inline"}, k \in Placas :
             updates < MaxQueries /\ Begin(1, h, k) /\ Ageing(0)
       \/ \E o \in CommonPrimary : PrimaryReturns(1, o) /\ Ageing(0)
       \/ \E o \in CommonBackup : BackupReturns(1, o) /\ Ageing(0)
       \/ Tick /\ Ageing(TickStep)
    /\ UNCHANGED entry

SpecStaleness == Init /\ [][NextStaleness]_vars

\* A value that is a Record: returned, and without "erro".
Record(v) == v.shape \notin {"none", "raise"} /\ ~HasErro(v)

\* The age of the value the handler run ending in this step returns: that of
\* the inline store's entry, that of the results tier's entry, or none when
\* an adapter has just returned it.
Staleness ==
    IF last'.inline THEN obtained["inline"][last'.placa]
    ELSE IF last'.calls = <<>> THEN obtained["principal"][last'.placa]
    ELSE 0

====
